---- MODULE Spec2Model ----
(***************************************************************************)
(* The local task store of mcp-pa-ai-agent                                 *)
(* (src/src/modules/tasks/providers/local.js): the LocalTaskProvider       *)
(* singleton, its lazily loaded in-memory collection and its JSON backing  *)
(* file.  Every asynchronous method is cut at its awaits: one action is    *)
(* one synchronous run of JavaScript between two awaits, or the            *)
(* completion of one file-system request.                                  *)
(* The task tools of the server (the handlers that choose the provider and *)
(* call the store) are modelled on top of it.                              *)
(*                                                                         *)
(* JavaScript values are strings: Undef and Null stand for undefined and   *)
(* null, an array of tags is written as its JSON text.  A JavaScript       *)
(* object is a function from its own keys to values.                       *)
(***************************************************************************)
EXTENDS Integers, Sequences, FiniteSets, TLC

\* ------------------------------------------------------------ bounds
\* Calls started in one behaviour.
MaxOps == 2
\* Last instant of the clock, in ticks.
MaxClock == 1
\* Ticks in one calendar day (the resolution of the clock).
TicksPerDay == 2
\* Slots for calls in flight; Spec uses them one at a time.
Slots == {1, 2}

\* ------------------------------------------------------------ JavaScript values
Undef == "undefined"
Null == "null"
EmptyObject == [k \in {} |-> Undef]
EmptyArray == "[]"

\* o.k : reading a key an object does not own gives undefined.
Get(o, k) == IF k \in DOMAIN o THEN o[k] ELSE Undef

\* The values that are falsy in `if (v)` and `v || d`.
Truthy(v) == v \notin {Undef, Null, ""}

\* a || b
OrElse(a, b) == IF Truthy(a) THEN a ELSE b

\* { ...a, ...b } : b's keys over a's.
Merge(a, b) ==
  [k \in DOMAIN a \cup DOMAIN b |-> IF k \in DOMAIN b THEN b[k] ELSE a[k]]

\* ------------------------------------------------------------ dates
\* setDate(getDate() + 7) at local.js:110.
WeekDays == 7

MaxDay == (MaxClock \div TicksPerDay) + WeekDays + 1

Pad2(n) == IF n < 10 THEN "0" \o ToString(n) ELSE ToString(n)

\* The calendar date of day d, as toISOString().split('T')[0] prints it.
DayString(d) == "2024-01-" \o Pad2(d + 1)

\* new Date(t).toISOString(): the UTC date, "T", the time of day.
ToISOString(t) == DayString(t \div TicksPerDay) \o "T" \o Pad2(t % TicksPerDay)

\* new Date(t).toISOString().split('T')[0]
ISODate(t) == DayString(t \div TicksPerDay)

NaN == 0 - 1

\* new Date(s).getTime(): a date-only string is midnight UTC of that day, a
\* full timestamp is its instant, anything else is an Invalid Date.
DateParse(s) ==
  IF \E d \in 0..MaxDay : DayString(d) = s
  THEN TicksPerDay * (CHOOSE d \in 0..MaxDay : DayString(d) = s)
  ELSE IF \E t \in 0..(TicksPerDay * (MaxDay + 1) - 1) : ToISOString(t) = s
  THEN CHOOSE t \in 0..(TicksPerDay * (MaxDay + 1) - 1) : ToISOString(t) = s
  ELSE NaN

\* tomorrow.setDate(tomorrow.getDate() + 1): the same time of day, one day on.
Tomorrow(t) == t + TicksPerDay

\* The due date stored when only today is resolved: tomorrow is kept as given.
ResolveDueDateTodayOnly(dueDate, t) ==
  IF dueDate = "today" THEN ISODate(t) ELSE dueDate

\* The due date createTask and updateTask store for the due date they are given.
ResolveDueDate(dueDate, t) ==
  IF Truthy(dueDate)
  THEN IF dueDate = "today" THEN ISODate(t)
       ELSE IF dueDate = "tomorrow" THEN ISODate(Tomorrow(t))
       ELSE dueDate
  ELSE dueDate

\* ------------------------------------------------------------ JSON
\* JSON.stringify of an object: a key whose value is undefined is left out.
StringifyObject(o) == [k \in {j \in DOMAIN o : o[j] # Undef} |-> o[k]]

\* JSON.stringify(this.tasks, null, 2): the text, written as the value it encodes.
Stringify(ts) == [i \in 1..Len(ts) |-> StringifyObject(ts[i])]

\* JSON.parse of a text Stringify wrote.
Parse(json) == json

\* The backing file: absent, present with text that is no JSON, or a JSON array.
Absent == [kind |-> "absent", json |-> <<>>]
Corrupt == [kind |-> "corrupt", json |-> <<>>]
JsonFile(json) == [kind |-> "json", json |-> json]

\* ------------------------------------------------------------ the collection
TaskKeys ==
  {"id", "title", "description", "status", "priority", "dueDate", "tags",
   "createdAt", "updatedAt"}

Statuses == {"open", "in_progress", "completed"}
Priorities == {"high", "medium", "low"}

\* uuidv4(): the n-th identifier drawn; no two draws are equal.
Uuid(n) == "id" \o ToString(n)

\* this.tasks.findIndex(t => t.id === id), counted from 1; 0 is JavaScript's -1.
FindIndex(ts, id) ==
  IF \E i \in 1..Len(ts) : Get(ts[i], "id") = id
  THEN CHOOSE i \in 1..Len(ts) :
         /\ Get(ts[i], "id") = id
         /\ \A j \in 1..(i - 1) : Get(ts[j], "id") # id
  ELSE 0

\* A newTask whose updatedAt is the date alone, createdAt the full instant.
NewTaskStampsDateOnly(taskData, id, t) ==
  [id |-> id,
   title |-> Get(taskData, "title"),
   description |-> OrElse(Get(taskData, "description"), ""),
   status |-> "open",
   priority |-> OrElse(Get(taskData, "priority"), "medium"),
   dueDate |-> ResolveDueDate(Get(taskData, "dueDate"), t),
   tags |-> OrElse(Get(taskData, "tags"), EmptyArray),
   createdAt |-> ToISOString(t),
   updatedAt |-> ISODate(t)]

\* The newTask object literal of createTask.
NewTask(taskData, id, t) ==
  [id |-> id,
   title |-> Get(taskData, "title"),
   description |-> OrElse(Get(taskData, "description"), ""),
   status |-> "open",
   priority |-> OrElse(Get(taskData, "priority"), "medium"),
   dueDate |-> ResolveDueDate(Get(taskData, "dueDate"), t),
   tags |-> OrElse(Get(taskData, "tags"), EmptyArray),
   createdAt |-> ToISOString(t),
   updatedAt |-> ToISOString(t)]

\* taskData.k || existingTask.k : a falsy value given does not count as given.
ProvidedIfTruthy(taskData, existingTask, k) ==
  IF Truthy(Get(taskData, k)) THEN Get(taskData, k) ELSE Get(existingTask, k)

\* taskData.k !== undefined ? taskData.k : existingTask.k
Provided(taskData, existingTask, k) ==
  IF Get(taskData, k) # Undef THEN Get(taskData, k) ELSE Get(existingTask, k)

\* { ...existingTask, ...taskData, updatedAt }: every key given is copied.
UpdatedTaskSpreadsPayload(existingTask, taskData, t) ==
  Merge(Merge(existingTask, taskData), [updatedAt |-> ToISOString(t)])

\* The updatedTask object literal of updateTask.
UpdatedTask(existingTask, taskData, t) ==
  Merge(existingTask,
    [title |-> Provided(taskData, existingTask, "title"),
     description |-> Provided(taskData, existingTask, "description"),
     status |-> Provided(taskData, existingTask, "status"),
     priority |-> Provided(taskData, existingTask, "priority"),
     dueDate |->
       IF ResolveDueDate(Get(taskData, "dueDate"), t) # Undef
       THEN ResolveDueDate(Get(taskData, "dueDate"), t)
       ELSE Get(existingTask, "dueDate"),
     tags |-> Provided(taskData, existingTask, "tags"),
     updatedAt |-> ToISOString(t)])

\* this.tasks.push(updatedTask): the old record stays where it was.
ReplaceAtPushes(ts, i, task) == Append(ts, task)

\* this.tasks[taskIndex] = updatedTask
ReplaceAt(ts, i, task) == [ts EXCEPT ![i] = task]

\* this.tasks.splice(taskIndex): without the count everything from the index
\* on is removed.
SpliceToEnd(ts, i) == SubSeq(ts, 1, i - 1)

\* this.tasks.splice(taskIndex, 1)
Splice(ts, i) == [j \in 1..(Len(ts) - 1) |-> IF j < i THEN ts[j] ELSE ts[j + 1]]

\* The status filter negated: the tasks of the other statuses are kept.
StatusFilterKeepsOthers(ts, filters) ==
  IF Truthy(Get(filters, "status"))
  THEN LET K(task) == Get(task, "status") # Get(filters, "status")
       IN SelectSeq(ts, K)
  ELSE ts

\* if (filters.status) filteredTasks = filteredTasks.filter(...)
\* (Array.prototype.filter is SelectSeq).
StatusFilter(ts, filters) ==
  IF Truthy(Get(filters, "status"))
  THEN LET K(task) == Get(task, "status") = Get(filters, "status")
       IN SelectSeq(ts, K)
  ELSE ts

\* if (filters.priority) filteredTasks = filteredTasks.filter(...)
PriorityFilter(ts, filters) ==
  IF Truthy(Get(filters, "priority"))
  THEN LET K(task) == Get(task, "priority") = Get(filters, "priority")
       IN SelectSeq(ts, K)
  ELSE ts

\* The week's test with its far end left out: taskDate < nextWeek.
DueThisWeekExclusive(task, t) ==
  /\ Truthy(Get(task, "dueDate"))
  /\ DateParse(Get(task, "dueDate")) # NaN
  /\ DateParse(Get(task, "dueDate")) >= t
  /\ DateParse(Get(task, "dueDate")) < t + WeekDays * TicksPerDay

\* The test of the this_week filter at instant t: a due date, and
\* today <= taskDate <= nextWeek (no comparison with an Invalid Date holds).
DueThisWeek(task, t) ==
  /\ Truthy(Get(task, "dueDate"))
  /\ DateParse(Get(task, "dueDate")) # NaN
  /\ DateParse(Get(task, "dueDate")) >= t
  /\ DateParse(Get(task, "dueDate")) <= t + WeekDays * TicksPerDay

\* targetDate for a due date filter other than this_week.
TargetDate(due, t) ==
  IF due = "today" THEN ISODate(t)
  ELSE IF due = "tomorrow" THEN ISODate(Tomorrow(t))
  ELSE due

\* getTasks with its this_week branch filtering the whole collection: the
\* status and priority filters are lost.
FilteredTasksWeekAlone(ts, filters, t) ==
  LET due == Get(filters, "dueDate")
      byPriority == PriorityFilter(StatusFilter(ts, filters), filters)
      InWeek(task) == DueThisWeek(task, t)
      OnDate(task) == Get(task, "dueDate") = TargetDate(due, t)
  IN IF ~Truthy(due) THEN byPriority
     ELSE IF due = "this_week" THEN SelectSeq(ts, InWeek)
     ELSE SelectSeq(byPriority, OnDate)

\* The sequence getTasks returns for a filters object at instant t.
FilteredTasks(ts, filters, t) ==
  LET due == Get(filters, "dueDate")
      byPriority == PriorityFilter(StatusFilter(ts, filters), filters)
      InWeek(task) == DueThisWeek(task, t)
      OnDate(task) == Get(task, "dueDate") = TargetDate(due, t)
  IN IF ~Truthy(due) THEN byPriority
     ELSE IF due = "this_week"
     THEN \* filteredTasks already went through the status and priority filters
          SelectSeq(byPriority, InWeek)
     ELSE SelectSeq(byPriority, OnDate)

\* ------------------------------------------------------------ inputs
\* The task the backing file may hold at the start: written by an earlier
\* process with createTask at instant 0.
SeedTask ==
  NewTask([title |-> "s", description |-> "d", dueDate |-> "today"], Uuid(1), 0)

InitialFiles ==
  {Absent, Corrupt, JsonFile(Stringify(<<>>)), JsonFile(Stringify(<<SeedTask>>))}

CreateInputs ==
  {[title |-> "a"],
   [title |-> "a", description |-> "d", priority |-> "high",
    dueDate |-> "today", tags |-> "[x]"],
   [title |-> "b", dueDate |-> "tomorrow"],
   [title |-> "b", dueDate |-> "this_week", priority |-> "urgent"]}

UpdateInputs ==
  {EmptyObject,
   [description |-> "", dueDate |-> Null],
   [dueDate |-> "tomorrow", priority |-> "low", tags |-> EmptyArray],
   [status |-> "completed"],
   [title |-> "c", status |-> "done", createdAt |-> "x"]}

FilterInputs ==
  {EmptyObject,
   [status |-> "open"],
   [dueDate |-> "today"],
   [dueDate |-> "this_week"]}

\* ------------------------------------------------------------ state
VARIABLES
  file,          \* the backing file, config...local.storageFile
  provider,      \* the module's localTaskProvider: "null" or "set"
  tasks,         \* this.tasks
  initialized,   \* this.initialized
  now,           \* the clock new Date() reads
  nextId,        \* identifiers uuidv4() has drawn, plus one
  calls,         \* each slot's call: where it stands (pc), the tool invoked and
                 \* its parameters (tool, params), the method called and its
                 \* argument (op, arg), what it returned (ok, err, task, list), and what it
                 \* met: the store when it was made (pre), the collection and
                 \* the instant when its body ran (before, at), what the read of
                 \* its initialize gave, in the method (rd) and in
                 \* getLocalTaskProvider (glpRd)
  nops,          \* calls started
  nreads,        \* fs.readFile requests completed
  nwrites,       \* fs.writeFile requests completed, failed ones included
  lastCreated,   \* what the caller keeps of the last createTask that resolved
  lastDeleted,   \* and of the last deleteTask that resolved
  lastError,     \* and of the last call that rejected
  env,           \* what the configuration and process.env hold: whether the
                 \* local task provider is enabled, whether the Google
                 \* credentials are set
  googleCalendarClient  \* the calendar module's googleCalendarClient: "null" or "set"

vars ==
  <<file, provider, tasks, initialized, now, nextId, calls, nops, nreads, nwrites,
    lastCreated, lastDeleted, env, googleCalendarClient, lastError>>

\* What a call sees of the store when it is made (getLocalTaskProvider is
\* called) and again when its method is called.
Snapshot ==
  [tasks |-> tasks, initialized |-> initialized, file |-> file,
   nreads |-> nreads, nwrites |-> nwrites, provider |-> provider, env |-> env,
   googleCalendarClient |-> googleCalendarClient]

IdleCall ==
  [pc |-> "idle", tool |-> "none", params |-> EmptyObject,
   op |-> "none", arg |-> EmptyObject, ret |-> "none",
   wbuf |-> <<>>, seq |-> 0, rd |-> "none", glpRd |-> "none", ok |-> FALSE,
   err |-> "none", message |-> "none",
   task |-> EmptyObject, list |-> <<>>, at |-> 0, before |-> <<>>,
   pre |-> [tasks |-> <<>>, initialized |-> FALSE, file |-> Absent,
            nreads |-> 0, nwrites |-> 0, provider |-> "null",
            env |-> [localEnabled |-> TRUE, credentials |-> FALSE],
            googleCalendarClient |-> "null"]]

InFlight(c) == calls[c].pc \notin {"idle", "done"}
Done(c) == calls[c].pc = "done"

\* The slot the next call takes: the first free one.
FreeSlot(c) ==
  /\ ~InFlight(c)
  /\ \A d \in Slots : ~InFlight(d) => c <= d

\* A call ends: it resolves with a result or rejects with an error.
Resolved(call) == [call EXCEPT !.pc = "done", !.ok = TRUE]
Rejected(call, err) == [call EXCEPT !.pc = "done", !.ok = FALSE, !.err = err]

\* Where initialize() hands control back: getLocalTaskProvider ("glp"), the
\* store method that awaited it ("op"), or the caller of initialize ("fin").
AfterInitialize(call) ==
  IF call.ret = "glp" THEN [call EXCEPT !.pc = "glpRet"]
  ELSE IF call.ret = "op" THEN [call EXCEPT !.pc = "body"]
  ELSE Resolved(call)

\* initialize() without its `if (this.initialized) return`.
EnterInitializeAlways(call, ret) == [call EXCEPT !.ret = ret, !.pc = "mkdir"]

\* initialize(), up to its first await: nothing to do once initialized,
\* fs.mkdir requested otherwise.
EnterInitialize(call, ret) ==
  IF initialized
  THEN AfterInitialize([call EXCEPT !.ret = ret])
  ELSE [call EXCEPT !.ret = ret, !.pc = "mkdir"]

\* What the caller keeps of a call that has just rejected.
LastErrorAfter(call) ==
  IF call.pc = "done" /\ ~call.ok
  THEN [seq |-> call.seq, err |-> call.err]
  ELSE lastError

Init ==
  /\ file \in InitialFiles
  /\ provider = "null"
  /\ tasks = <<>>
  /\ initialized = FALSE
  /\ now = 0
  /\ nextId = 2
  /\ calls = [c \in Slots |-> IdleCall]
  /\ nops = 0
  /\ nreads = 0
  /\ nwrites = 0
  /\ lastCreated = [seq |-> 0, task |-> EmptyObject, arg |-> EmptyObject, at |-> 0]
  /\ lastDeleted = [seq |-> 0, taskId |-> Undef]
  /\ lastError = [seq |-> 0, err |-> "none"]
  /\ env = [localEnabled |-> TRUE, credentials |-> FALSE]
  /\ googleCalendarClient = "null"

\* The calls a caller can make, with the identifiers drawn so far and one
\* (Uuid(0)) that no task ever has.
Requests ==
  {[op |-> "initialize", arg |-> EmptyObject]}
  \cup {[op |-> "getTasks", arg |-> f] : f \in FilterInputs}
  \cup {[op |-> "getTaskById", arg |-> [taskId |-> Uuid(n)]] : n \in 0..(nextId - 1)}
  \cup {[op |-> "createTask", arg |-> d] : d \in CreateInputs}
  \cup {[op |-> "updateTask", arg |-> Merge(d, [id |-> Uuid(n)])] :
          d \in UpdateInputs, n \in 0..(nextId - 1)}
  \cup {[op |-> "deleteTask", arg |-> [taskId |-> Uuid(n)]] : n \in 0..(nextId - 1)}

\* The calls made while another may be in flight: fewer arguments, the same
\* methods.
ConcurrentRequests ==
  {[op |-> "initialize", arg |-> EmptyObject],
   [op |-> "getTasks", arg |-> EmptyObject],
   [op |-> "getTaskById", arg |-> [taskId |-> Uuid(1)]],
   [op |-> "createTask", arg |-> [title |-> "a"]],
   [op |-> "createTask", arg |-> [title |-> "b", dueDate |-> "tomorrow"]],
   [op |-> "updateTask", arg |-> [id |-> Uuid(1), status |-> "completed"]],
   [op |-> "deleteTask", arg |-> [taskId |-> Uuid(1)]]}

\* getLocalTaskProvider(), up to its first await, for the call in slot c.
GetLocalTaskProvider(c, req) ==
  LET call == [IdleCall EXCEPT !.op = req.op, !.arg = req.arg,
                               !.tool = IF "tool" \in DOMAIN req THEN req.tool ELSE "none",
                               !.params = IF "params" \in DOMAIN req
                                          THEN req.params ELSE EmptyObject,
                               !.seq = nops + 1, !.pre = Snapshot]
  IN /\ nops < MaxOps
     /\ FreeSlot(c)
     /\ nops' = nops + 1
     /\ IF provider = "set"
        THEN /\ calls' = [calls EXCEPT ![c] = [call EXCEPT !.pc = "glpRet"]]
             /\ UNCHANGED provider
        ELSE IF ~env.localEnabled
        THEN \* throw new Error('Local task provider is disabled in configuration')
             /\ calls' = [calls EXCEPT ![c] = Rejected(call, "ProviderDisabled")]
             /\ UNCHANGED provider
        ELSE \* new LocalTaskProvider(filePath); await localTaskProvider.initialize()
             /\ provider' = "set"
             /\ calls' = [calls EXCEPT ![c] = EnterInitialize(call, "glp")]
     /\ lastError' = LastErrorAfter(calls'[c])
     /\ UNCHANGED <<file, tasks, initialized, now, nextId, nreads, nwrites, lastCreated, lastDeleted, env, googleCalendarClient>>

\* A call made while no other call is in flight.
StartAlone(c, req) ==
  /\ \A d \in Slots : ~InFlight(d)
  /\ GetLocalTaskProvider(c, req)

\* A call made whatever else is in flight.
StartAny(c, req) == GetLocalTaskProvider(c, req)

\* await fs.mkdir(directory, { recursive: true }) completes.
MkdirDone(c) ==
  /\ calls[c].pc = "mkdir"
  /\ \E failed \in BOOLEAN :
       calls' = [calls EXCEPT ![c] =
                   IF failed THEN Rejected(@, "InitFailed")
                   ELSE [@ EXCEPT !.pc = "read"]]
  /\ UNCHANGED <<file, provider, tasks, initialized, now, nextId, nops, nreads, nwrites, lastCreated, lastDeleted, env, googleCalendarClient>>
  /\ lastError' = LastErrorAfter(calls'[c])

\* What fs.readFile and JSON.parse make of the file.
ReadOutcome(f, failed) ==
  IF f.kind = "absent" THEN "enoent"
  ELSE IF failed THEN "eio"
  ELSE IF f.kind = "corrupt" THEN "parse"
  ELSE "ok"

\* await fs.readFile(...) completes and initialize runs on to its next await
\* or to its end.
ReadDone(c) ==
  /\ calls[c].pc = "read"
  /\ nreads' = nreads + 1
  /\ \E failed \in BOOLEAN :
       LET rd == ReadOutcome(file, failed)
           call == [calls[c] EXCEPT !.rd = rd]
       IN IF rd = "ok"
          THEN /\ tasks' = Parse(file.json)
               /\ initialized' = TRUE
               /\ calls' = [calls EXCEPT ![c] = AfterInitialize(call)]
          ELSE \* the catch block: this.tasks = []; await this.saveToFile()
               /\ tasks' = <<>>
               /\ calls' = [calls EXCEPT ![c] =
                             [call EXCEPT !.pc = "initWrite", !.wbuf = Stringify(<<>>)]]
               /\ UNCHANGED initialized
  /\ UNCHANGED <<file, provider, now, nextId, nops, nwrites, lastCreated, lastDeleted, env, googleCalendarClient, lastError>>

\* The write of initialize's catch block completes.
InitWriteDone(c) ==
  /\ calls[c].pc = "initWrite"
  /\ nwrites' = nwrites + 1
  /\ \/ /\ file' = JsonFile(calls[c].wbuf)
        /\ initialized' = TRUE
        /\ calls' = [calls EXCEPT ![c] = AfterInitialize(@)]
     \/ /\ file' = file
        /\ calls' = [calls EXCEPT ![c] = Rejected(@, "InitFailed")]
        /\ UNCHANGED initialized
  /\ UNCHANGED <<provider, tasks, now, nextId, nops, nreads, lastCreated, lastDeleted, env, googleCalendarClient>>
  /\ lastError' = LastErrorAfter(calls'[c])

\* The caller has its provider and calls the method; the method awaits
\* this.initialize().
CallMethod(c) ==
  /\ calls[c].pc = "glpRet"
  /\ calls' = [calls EXCEPT ![c] =
                 EnterInitialize([@ EXCEPT !.pre = Snapshot, !.glpRd = calls[c].rd,
                                           !.rd = "none"],
                                 IF @.op = "initialize" THEN "fin" ELSE "op")]
  /\ UNCHANGED <<file, provider, tasks, initialized, now, nextId, nops, nreads, nwrites, lastCreated, lastDeleted, env, googleCalendarClient, lastError>>

\* ------------------------------------------------------------ the methods' bodies
\* getTasks after its await: the filtered copy of the collection.
GetTasksBody(c) ==
  /\ calls[c].pc = "body"
  /\ calls[c].op = "getTasks"
  /\ calls' = [calls EXCEPT ![c] =
                 Resolved([@ EXCEPT !.list = FilteredTasks(tasks, calls[c].arg, now),
                                    !.at = now, !.before = tasks])]
  /\ UNCHANGED <<file, provider, tasks, initialized, now, nextId, nops, nreads, nwrites, lastCreated, lastDeleted, env, googleCalendarClient, lastError>>

\* find(t => t.id = taskId): the assignment is truthy, the first task is found.
FindTaskAssigns(ts, taskId) ==
  IF Len(ts) = 0
  THEN [found |-> FALSE, task |-> EmptyObject]
  ELSE [found |-> TRUE, task |-> Merge(ts[1], [id |-> taskId])]

\* this.tasks.find(t => t.id === taskId), and the throw when there is none.
FindTask(ts, taskId) ==
  IF FindIndex(ts, taskId) = 0
  THEN [found |-> FALSE, task |-> EmptyObject]
  ELSE [found |-> TRUE, task |-> ts[FindIndex(ts, taskId)]]

\* getTaskById after its await.
GetTaskByIdBody(c) ==
  /\ calls[c].pc = "body"
  /\ calls[c].op = "getTaskById"
  /\ LET r == FindTask(tasks, Get(calls[c].arg, "taskId"))
     IN calls' = [calls EXCEPT ![c] =
                    IF r.found
                    THEN Resolved([@ EXCEPT !.task = r.task, !.at = now,
                                            !.before = tasks])
                    ELSE Rejected([@ EXCEPT !.at = now, !.before = tasks],
                                  "NotFound")]
  /\ UNCHANGED <<file, provider, tasks, initialized, now, nextId, nops, nreads, nwrites, lastCreated, lastDeleted, env, googleCalendarClient>>
  /\ lastError' = LastErrorAfter(calls'[c])

\* this.tasks.unshift(newTask): the new task goes to the front.
PushUnshifts(ts, task) == <<task>> \o ts

\* this.tasks.push(newTask)
Push(ts, task) == Append(ts, task)

\* createTask saving before it pushes: the text written lacks the new task.
CreateTaskBodySavesFirst(c) ==
  /\ calls[c].pc = "body"
  /\ calls[c].op = "createTask"
  /\ LET newTask == NewTask(calls[c].arg, Uuid(nextId), now)
     IN /\ tasks' = Push(tasks, newTask)
        /\ calls' = [calls EXCEPT ![c] =
                       [@ EXCEPT !.pc = "write", !.task = newTask, !.at = now,
                                 !.before = tasks, !.wbuf = Stringify(tasks)]]
  /\ nextId' = nextId + 1
  /\ UNCHANGED <<file, provider, initialized, now, nops, nreads, nwrites, lastCreated, lastDeleted, env, googleCalendarClient, lastError>>

\* createTask after its await, up to await this.saveToFile(): the new task is
\* in the collection and fs.writeFile is requested with the collection's text.
CreateTaskBody(c) ==
  /\ calls[c].pc = "body"
  /\ calls[c].op = "createTask"
  /\ LET newTask == NewTask(calls[c].arg, Uuid(nextId), now)
     IN /\ tasks' = Push(tasks, newTask)
        /\ calls' = [calls EXCEPT ![c] =
                       [@ EXCEPT !.pc = "write", !.task = newTask, !.at = now,
                                 !.before = tasks, !.wbuf = Stringify(tasks')]]
  /\ nextId' = nextId + 1
  /\ UNCHANGED <<file, provider, initialized, now, nops, nreads, nwrites, lastCreated, lastDeleted, env, googleCalendarClient, lastError>>

\* updateTask's change to the collection: none when no task has the id.
UpdateTasks(ts, taskData, t) ==
  LET i == FindIndex(ts, Get(taskData, "id"))
  IN IF i = 0
     THEN [found |-> FALSE, tasks |-> ts, task |-> EmptyObject]
     ELSE [found |-> TRUE,
           tasks |-> ReplaceAt(ts, i, UpdatedTask(ts[i], taskData, t)),
           task |-> UpdatedTask(ts[i], taskData, t)]

\* updateTask after its await, up to await this.saveToFile().
UpdateTaskBody(c) ==
  /\ calls[c].pc = "body"
  /\ calls[c].op = "updateTask"
  /\ LET r == UpdateTasks(tasks, calls[c].arg, now)
     IN /\ tasks' = r.tasks
        /\ calls' = [calls EXCEPT ![c] =
                       IF r.found
                       THEN [@ EXCEPT !.pc = "write", !.task = r.task, !.at = now,
                                      !.before = tasks, !.wbuf = Stringify(r.tasks)]
                       ELSE Rejected([@ EXCEPT !.at = now, !.before = tasks],
                                     "NotFound")]
  /\ UNCHANGED <<file, provider, initialized, now, nextId, nops, nreads, nwrites, lastCreated, lastDeleted, env, googleCalendarClient>>
  /\ lastError' = LastErrorAfter(calls'[c])

\* deleteTask without its not-found check: splice(-1, 1) removes the last task.
DeleteTasksUnchecked(ts, taskId) ==
  LET i == FindIndex(ts, taskId)
  IN [found |-> TRUE, tasks |-> Splice(ts, IF i = 0 THEN Len(ts) ELSE i)]

\* deleteTask's change to the collection: none when no task has the id.
DeleteTasks(ts, taskId) ==
  LET i == FindIndex(ts, taskId)
  IN IF i = 0
     THEN [found |-> FALSE, tasks |-> ts]
     ELSE [found |-> TRUE, tasks |-> Splice(ts, i)]

\* deleteTask after its await, up to await this.saveToFile().
DeleteTaskBody(c) ==
  /\ calls[c].pc = "body"
  /\ calls[c].op = "deleteTask"
  /\ LET r == DeleteTasks(tasks, Get(calls[c].arg, "taskId"))
     IN /\ tasks' = r.tasks
        /\ calls' = [calls EXCEPT ![c] =
                       IF r.found
                       THEN [@ EXCEPT !.pc = "write", !.at = now,
                                      !.before = tasks, !.wbuf = Stringify(r.tasks)]
                       ELSE Rejected([@ EXCEPT !.at = now, !.before = tasks],
                                     "NotFound")]
  /\ UNCHANGED <<file, provider, initialized, now, nextId, nops, nreads, nwrites, lastCreated, lastDeleted, env, googleCalendarClient>>
  /\ lastError' = LastErrorAfter(calls'[c])

\* saveToFile with a catch block that only logs: the method returns as if the
\* write had worked.
WriteDoneSwallows(c) ==
  /\ calls[c].pc = "write"
  /\ nwrites' = nwrites + 1
  /\ \/ file' = JsonFile(calls[c].wbuf)
     \/ file' = file
  /\ calls' = [calls EXCEPT ![c] = Resolved(@)]
  /\ lastCreated' =
       IF calls[c].op = "createTask"
       THEN [seq |-> calls[c].seq, task |-> calls[c].task,
             arg |-> calls[c].arg, at |-> calls[c].at]
       ELSE lastCreated
  /\ lastDeleted' =
       IF calls[c].op = "deleteTask"
       THEN [seq |-> calls[c].seq, taskId |-> Get(calls[c].arg, "taskId")]
       ELSE lastDeleted
  /\ UNCHANGED <<provider, tasks, initialized, now, nextId, nops, nreads, env, googleCalendarClient, lastError>>

\* The fs.writeFile of saveToFile completes and the method returns or throws.
WriteDone(c) ==
  /\ calls[c].pc = "write"
  /\ nwrites' = nwrites + 1
  /\ \/ /\ file' = JsonFile(calls[c].wbuf)
        /\ calls' = [calls EXCEPT ![c] = Resolved(@)]
        /\ lastCreated' =
             IF calls[c].op = "createTask"
             THEN [seq |-> calls[c].seq, task |-> calls[c].task,
                   arg |-> calls[c].arg, at |-> calls[c].at]
             ELSE lastCreated
        /\ lastDeleted' =
             IF calls[c].op = "deleteTask"
             THEN [seq |-> calls[c].seq, taskId |-> Get(calls[c].arg, "taskId")]
             ELSE lastDeleted
     \/ /\ file' = file
        /\ calls' = [calls EXCEPT ![c] = Rejected(@, "SaveFailed")]
        /\ UNCHANGED <<lastCreated, lastDeleted>>
  /\ lastError' = LastErrorAfter(calls'[c])
  /\ UNCHANGED <<provider, tasks, initialized, now, nextId, nops, nreads, env, googleCalendarClient>>

\* Time passes.  Only the methods' bodies read the clock, so a tick at any
\* other moment is a tick just before the next body runs.
Tick ==
  /\ now < MaxClock
  /\ \E c \in Slots : calls[c].pc = "body"
  /\ now' = now + 1
  /\ UNCHANGED <<file, provider, tasks, initialized, nextId, calls, nops, nreads, nwrites, lastCreated, lastDeleted, env, googleCalendarClient, lastError>>

\* One step of a call in flight.
Step(c) ==
  \/ MkdirDone(c)
  \/ ReadDone(c)
  \/ InitWriteDone(c)
  \/ CallMethod(c)
  \/ GetTasksBody(c)
  \/ GetTaskByIdBody(c)
  \/ CreateTaskBody(c)
  \/ UpdateTaskBody(c)
  \/ DeleteTaskBody(c)
  \/ WriteDone(c)

\* Calls made one after another: each is made when the one before has ended.
Next ==
  \/ \E c \in Slots : \E req \in Requests : StartAlone(c, req)
  \/ \E c \in Slots : Step(c)
  \/ Tick

Spec == Init /\ [][Next]_vars

\* Calls made at any time, also while another is in flight.
NextConcurrent ==
  \/ \E c \in Slots : \E req \in ConcurrentRequests : StartAny(c, req)
  \/ \E c \in Slots : Step(c)
  \/ Tick

ConcurrentSpec == Init /\ [][NextConcurrent]_vars

\* ------------------------------------------------------------ the task tools
\* config.modules.tasks.defaultProvider
DefaultProvider == "local"

\* The handlers' choice with the else branch lost: every call goes to the
\* local store.
SelectedProviderAlwaysDefault(params) == DefaultProvider

\* const provider = params.provider || defaultProvider
SelectedProvider(params) == OrElse(Get(params, "provider"), DefaultProvider)

\* The message of the error a handler throws for a provider other than local.
\* (err holds the message of the error first thrown; the catch blocks of the
\* handlers and of the store put their own words before it.)
UnsupportedProvider(name) ==
  "Task provider '" \o name \o "' is not supported or enabled"

\* The method of the local provider a tool's handler calls, and its argument.
ProviderCall(tool, params) ==
  IF tool = "getTasks"
  THEN [op |-> "getTasks",
        arg |-> [status |-> Get(params, "status"),
                 priority |-> Get(params, "priority"),
                 dueDate |-> Get(params, "dueDate")]]
  ELSE IF tool = "getTaskById"
  THEN [op |-> "getTaskById", arg |-> [taskId |-> Get(params, "taskId")]]
  ELSE IF tool = "createTask"
  THEN [op |-> "createTask",
        arg |-> [title |-> Get(params, "title"),
                 description |-> Get(params, "description"),
                 dueDate |-> Get(params, "dueDate"),
                 priority |-> OrElse(Get(params, "priority"), "medium"),
                 tags |-> OrElse(Get(params, "tags"), EmptyArray)]]
  ELSE IF tool = "updateTask"
  THEN [op |-> "updateTask",
        arg |-> [id |-> Get(params, "taskId"),
                 title |-> Get(params, "title"),
                 description |-> Get(params, "description"),
                 dueDate |-> Get(params, "dueDate"),
                 priority |-> Get(params, "priority"),
                 status |-> Get(params, "status"),
                 tags |-> Get(params, "tags")]]
  ELSE IF tool = "deleteTask"
  THEN [op |-> "deleteTask", arg |-> [taskId |-> Get(params, "taskId")]]
  ELSE \* completeTask
       [op |-> "updateTask",
        arg |-> [id |-> Get(params, "taskId"), status |-> "completed"]]

\* A tool's handler, up to its first await or to its throw.
Handler(c, tool, params) ==
  LET req == ProviderCall(tool, params)
  IN IF SelectedProvider(params) = "local"
     THEN GetLocalTaskProvider(c, [op |-> req.op, arg |-> req.arg,
                                   tool |-> tool, params |-> params])
     ELSE /\ nops < MaxOps
          /\ FreeSlot(c)
          /\ nops' = nops + 1
          /\ calls' = [calls EXCEPT ![c] =
                         Rejected([IdleCall EXCEPT !.tool = tool, !.params = params,
                                                   !.op = req.op, !.arg = req.arg,
                                                   !.seq = nops + 1, !.pre = Snapshot],
                                  UnsupportedProvider(SelectedProvider(params)))]
          /\ UNCHANGED <<file, provider, tasks, initialized, now, nextId, nreads, nwrites, lastCreated, lastDeleted, env, googleCalendarClient>>
          /\ lastError' = LastErrorAfter(calls'[c])

\* The collection an earlier run of the server left in the backing file, made
\* with the createTask and completeTask tools at instant 0: an open task of
\* high priority due that day, a completed one of low priority due a week
\* later, an open one without a due date, an open one of low priority due the
\* next day.
StoredTasks ==
  <<NewTask(ProviderCall("createTask",
              [title |-> "s", description |-> "d", dueDate |-> "today",
               priority |-> "high"]).arg, Uuid(1), 0),
    UpdatedTask(NewTask(ProviderCall("createTask",
                          [title |-> "t", dueDate |-> DayString(WeekDays),
                           priority |-> "low"]).arg, Uuid(2), 0),
                ProviderCall("completeTask", [taskId |-> Uuid(2)]).arg, 0),
    NewTask(ProviderCall("createTask", [title |-> "u"]).arg, Uuid(3), 0),
    NewTask(ProviderCall("createTask",
              [title |-> "v", dueDate |-> "tomorrow", priority |-> "low",
               tags |-> "[x]"]).arg, Uuid(4), 0)>>

\* The parameters the host sends with each tool.
GetTasksParams ==
  {EmptyObject,
   [status |-> "open"],
   [status |-> "in_progress"],
   [status |-> "open", priority |-> "low"],
   [status |-> "open", dueDate |-> "this_week"],
   [status |-> "completed", priority |-> "low", dueDate |-> "this_week"],
   [dueDate |-> "this_week"],
   [dueDate |-> "today"],
   [dueDate |-> "tomorrow"],
   [priority |-> "high", dueDate |-> "today"],
   [priority |-> "low"],
   [priority |-> "low", dueDate |-> "this_week"],
   [status |-> "open", priority |-> "low", dueDate |-> DayString(1)],
   [status |-> "open", provider |-> "todoist"]}

CreateTaskParams ==
  {[title |-> "a", dueDate |-> "today"],
   [title |-> "a", dueDate |-> "tomorrow", provider |-> "local"],
   [title |-> ""],
   [title |-> "b", provider |-> "todoist"],
   [title |-> "b", provider |-> "notion"]}

UpdateTaskParams ==
  {[status |-> "in_progress"],
   [title |-> "c", provider |-> "todoist"]}

TaskIdParams ==
  {EmptyObject, [provider |-> "todoist"]}

\* The invocations the host can make, with the identifiers drawn so far and
\* one (Uuid(0)) that no task ever has.
Invocations ==
  {[tool |-> "getTasks", params |-> p] : p \in GetTasksParams}
  \cup {[tool |-> "createTask", params |-> p] : p \in CreateTaskParams}
  \cup {[tool |-> "updateTask", params |-> Merge(p, [taskId |-> Uuid(n)])] :
          p \in UpdateTaskParams, n \in {0, 2}}
  \cup {[tool |-> t, params |-> Merge(p, [taskId |-> Uuid(n)])] :
          t \in {"getTaskById", "deleteTask", "completeTask"},
          p \in TaskIdParams, n \in {0, 1, 2, nextId - 1}}

\* A tool invoked while no other invocation is in flight.
Invoke(c, inv) ==
  /\ \A d \in Slots : ~InFlight(d)
  /\ Handler(c, inv.tool, inv.params)

\* The server started on the stored collection.
ToolInit ==
  /\ file = JsonFile(Stringify(StoredTasks))
  /\ provider = "null"
  /\ tasks = <<>>
  /\ initialized = FALSE
  /\ now = 0
  /\ nextId = Len(StoredTasks) + 1
  /\ calls = [c \in Slots |-> IdleCall]
  /\ nops = 0
  /\ nreads = 0
  /\ nwrites = 0
  /\ lastCreated = [seq |-> 0, task |-> EmptyObject, arg |-> EmptyObject, at |-> 0]
  /\ lastDeleted = [seq |-> 0, taskId |-> Undef]
  /\ lastError = [seq |-> 0, err |-> "none"]
  /\ env = [localEnabled |-> TRUE, credentials |-> FALSE]
  /\ googleCalendarClient = "null"

\* Tools invoked one after another.
ToolNext ==
  \/ \E c \in Slots : \E inv \in Invocations : Invoke(c, inv)
  \/ \E c \in Slots : Step(c)
  \/ Tick

ToolSpec == ToolInit /\ [][ToolNext]_vars

\* ------------------------------------------------------------ the other tools
TaskTools ==
  {"getTasks", "getTaskById", "createTask", "updateTask", "deleteTask",
   "completeTask"}

CalendarTools ==
  {"getEvents", "createEvent", "updateEvent", "deleteEvent", "listCalendars"}

PlaceholderTools ==
  {"getEmails", "sendEmail", "searchWeb", "searchLocalFiles", "getDeviceStatus",
   "controlDevice"}

\* The message each placeholder handler returns with success: true.
PlaceholderMessages ==
  [getEmails |->
     "This is a placeholder for email functionality. The actual implementation would connect to email services.",
   sendEmail |->
     "This is a placeholder for email functionality. The actual implementation would connect to email services.",
   searchWeb |->
     "This is a placeholder for web search functionality. The actual implementation would connect to search engines.",
   searchLocalFiles |->
     "This is a placeholder for local file search functionality. The actual implementation would index and search local files.",
   getDeviceStatus |->
     "This is a placeholder for smart home functionality. The actual implementation would connect to smart home platforms.",
   controlDevice |->
     "This is a placeholder for smart home functionality. The actual implementation would connect to smart home platforms."]

\* A placeholder that answers with what it was asked.
PlaceholderResultEchoes(tool, params) ==
  IF Truthy(Get(params, "query"))
  THEN "No results for " \o Get(params, "query")
  ELSE PlaceholderMessages[tool]

\* The message a placeholder handler returns for its parameters.
PlaceholderResult(tool, params) == PlaceholderMessages[tool]

\* A placeholder tool's handler: it logs and returns.
PlaceholderHandler(c, tool, params) ==
  /\ nops < MaxOps
  /\ FreeSlot(c)
  /\ nops' = nops + 1
  /\ calls' = [calls EXCEPT ![c] =
                 Resolved([IdleCall EXCEPT !.tool = tool, !.params = params,
                                           !.seq = nops + 1, !.pre = Snapshot,
                                           !.message = PlaceholderResult(tool, params)])]
  /\ UNCHANGED <<file, provider, tasks, initialized, now, nextId, nreads, nwrites, lastCreated, lastDeleted, env, googleCalendarClient, lastError>>

\* config.modules.calendar.defaultProvider
DefaultCalendarProvider == "google"

\* The message of the error a calendar handler throws for another provider.
UnsupportedCalendarProvider(name) ==
  "Calendar provider '" \o name \o "' is not supported or enabled"

\* What getGoogleEvents, createGoogleEvent, ... of the calendar module return.
CalendarMessage ==
  "This is a placeholder. Google Calendar integration would be implemented here."

\* getGoogleCalendarClient(): the client kept from an earlier call, or a new
\* one made from the credentials of process.env; without them it throws and
\* keeps nothing.
GetGoogleCalendarClient ==
  IF googleCalendarClient = "set" THEN [ok |-> TRUE, client |-> "set"]
  ELSE IF ~env.credentials THEN [ok |-> FALSE, client |-> "null"]
  ELSE [ok |-> TRUE, client |-> "set"]

\* A calendar tool's handler.
CalendarHandler(c, tool, params) ==
  LET name == OrElse(Get(params, "provider"), DefaultCalendarProvider)
      call == [IdleCall EXCEPT !.tool = tool, !.params = params,
                               !.seq = nops + 1, !.pre = Snapshot]
      got == GetGoogleCalendarClient
  IN /\ nops < MaxOps
     /\ FreeSlot(c)
     /\ nops' = nops + 1
     /\ IF name # "google"
        THEN /\ calls' = [calls EXCEPT ![c] =
                            Rejected(call, UnsupportedCalendarProvider(name))]
             /\ UNCHANGED googleCalendarClient
        ELSE IF ~got.ok
        THEN /\ calls' = [calls EXCEPT ![c] = Rejected(call, "MissingCredentials")]
             /\ UNCHANGED googleCalendarClient
        ELSE /\ googleCalendarClient' = got.client
             /\ calls' = [calls EXCEPT ![c] =
                            Resolved([call EXCEPT !.message = CalendarMessage])]
     /\ lastError' = LastErrorAfter(calls'[c])
     /\ UNCHANGED <<file, provider, tasks, initialized, now, nextId, nreads, nwrites, lastCreated, lastDeleted, env>>

\* The configuration is corrected: the local task provider is enabled.
EnableLocalProvider ==
  /\ ~env.localEnabled
  /\ env' = [env EXCEPT !.localEnabled = TRUE]
  /\ UNCHANGED <<file, provider, tasks, initialized, now, nextId, calls, nops, nreads, nwrites, lastCreated, lastDeleted, googleCalendarClient, lastError>>

\* The environment is corrected: the Google credentials are set.
SetCredentials ==
  /\ ~env.credentials
  /\ env' = [env EXCEPT !.credentials = TRUE]
  /\ UNCHANGED <<file, provider, tasks, initialized, now, nextId, calls, nops, nreads, nwrites, lastCreated, lastDeleted, googleCalendarClient, lastError>>

\* The invocations the host makes of the whole catalog.
ServerInvocations ==
  {[tool |-> "getTasks", params |-> EmptyObject],
   [tool |-> "createTask", params |-> [title |-> "a"]],
   [tool |-> "getTaskById", params |-> [taskId |-> Uuid(1)]],
   [tool |-> "deleteTask", params |-> [taskId |-> Uuid(1)]],
   [tool |-> "completeTask", params |-> [taskId |-> Uuid(3)]],
   [tool |-> "listCalendars", params |-> EmptyObject],
   [tool |-> "getEvents", params |-> [startDate |-> "today"]],
   [tool |-> "deleteEvent", params |-> [eventId |-> "e", provider |-> "outlook"]],
   [tool |-> "getEmails", params |-> EmptyObject],
   [tool |-> "getEmails", params |-> [query |-> "q", provider |-> "outlook"]],
   [tool |-> "sendEmail", params |-> [to |-> "[x]", subject |-> "s", body |-> "b"]],
   [tool |-> "searchWeb", params |-> [query |-> "q"]],
   [tool |-> "searchWeb", params |-> [query |-> "r", limit |-> "1"]],
   [tool |-> "searchLocalFiles", params |-> [query |-> "q", fileTypes |-> "[pdf]"]],
   [tool |-> "getDeviceStatus", params |-> EmptyObject],
   [tool |-> "getDeviceStatus", params |-> [deviceId |-> "d"]],
   [tool |-> "controlDevice", params |-> [deviceId |-> "d", command |-> "on"]],
   [tool |-> "controlDevice", params |-> [deviceId |-> "d", command |-> "off",
                                          value |-> "1"]]}

\* A tool of the catalog invoked while no other invocation is in flight.
InvokeTool(c, inv) ==
  /\ \A d \in Slots : ~InFlight(d)
  /\ IF inv.tool \in TaskTools THEN Handler(c, inv.tool, inv.params)
     ELSE IF inv.tool \in CalendarTools THEN CalendarHandler(c, inv.tool, inv.params)
     ELSE PlaceholderHandler(c, inv.tool, inv.params)

\* The server started on the stored collection, with the configuration and
\* the environment it was given.
ServerInit ==
  /\ file = JsonFile(Stringify(StoredTasks))
  /\ provider = "null"
  /\ tasks = <<>>
  /\ initialized = FALSE
  /\ now = 0
  /\ nextId = Len(StoredTasks) + 1
  /\ calls = [c \in Slots |-> IdleCall]
  /\ nops = 0
  /\ nreads = 0
  /\ nwrites = 0
  /\ lastCreated = [seq |-> 0, task |-> EmptyObject, arg |-> EmptyObject, at |-> 0]
  /\ lastDeleted = [seq |-> 0, taskId |-> Undef]
  /\ lastError = [seq |-> 0, err |-> "none"]
  /\ env \in [localEnabled : BOOLEAN, credentials : BOOLEAN]
  /\ googleCalendarClient = "null"

ServerNext ==
  \/ \E c \in Slots : \E inv \in ServerInvocations : InvokeTool(c, inv)
  \/ \E c \in Slots : Step(c)
  \/ Tick
  \/ EnableLocalProvider
  \/ SetCredentials

ServerSpec == ServerInit /\ [][ServerNext]_vars

\* ------------------------------------------------------------ the loaded store
\* The mutating calls made of a store that has loaded the stored collection.
MutatingRequests ==
  {[op |-> "createTask", arg |-> [title |-> "a"]],
   [op |-> "createTask", arg |-> [title |-> "b", dueDate |-> "tomorrow"]],
   [op |-> "updateTask", arg |-> [id |-> Uuid(1), status |-> "completed"]],
   [op |-> "updateTask", arg |-> [id |-> Uuid(3), title |-> "c"]],
   [op |-> "deleteTask", arg |-> [taskId |-> Uuid(1)]],
   [op |-> "deleteTask", arg |-> [taskId |-> Uuid(2)]]}

\* The store after an earlier call has run getLocalTaskProvider and its
\* initialize on the stored collection: the provider is kept, the collection
\* is the file's, the file has been read once.
LoadedInit ==
  /\ file = JsonFile(Stringify(StoredTasks))
  /\ provider = "set"
  /\ tasks = Parse(Stringify(StoredTasks))
  /\ initialized = TRUE
  /\ now = 0
  /\ nextId = Len(StoredTasks) + 1
  /\ calls = [c \in Slots |-> IdleCall]
  /\ nops = 0
  /\ nreads = 1
  /\ nwrites = 0
  /\ lastCreated = [seq |-> 0, task |-> EmptyObject, arg |-> EmptyObject, at |-> 0]
  /\ lastDeleted = [seq |-> 0, taskId |-> Undef]
  /\ lastError = [seq |-> 0, err |-> "none"]
  /\ env = [localEnabled |-> TRUE, credentials |-> FALSE]
  /\ googleCalendarClient = "null"

\* One step of a mutating call on the loaded store.
MutatingStep(c) ==
  \/ CallMethod(c)
  \/ CreateTaskBody(c)
  \/ UpdateTaskBody(c)
  \/ DeleteTaskBody(c)
  \/ WriteDone(c)

\* Mutating calls made at any time of the loaded store.
LoadedNext ==
  \/ \E c \in Slots : \E req \in MutatingRequests : StartAny(c, req)
  \/ \E c \in Slots : MutatingStep(c)
  \/ Tick

LoadedSpec == LoadedInit /\ [][LoadedNext]_vars

\* ------------------------------------------------------------ claims
HasId(ts, id) == \E i \in 1..Len(ts) : Get(ts[i], "id") = id

\* The task of ts with the id (there is one).
TaskOf(ts, id) == ts[CHOOSE i \in 1..Len(ts) : Get(ts[i], "id") = id]

\* The id a getTaskById, updateTask or deleteTask call names.
TargetId(call) ==
  IF call.op = "updateTask" THEN Get(call.arg, "id") ELSE Get(call.arg, "taskId")

LookupOps == {"getTaskById", "updateTask", "deleteTask"}
MutatingOps == {"createTask", "updateTask", "deleteTask"}

\* C1: on an initialized store, getTaskById, updateTask and deleteTask with an
\* id no task has each fail with not-found, leave the collection as it was
\* and write nothing to the file.
C1_UnknownIdFailsAndLeavesStore ==
  \A c \in Slots :
    ( /\ Done(c)
      /\ calls[c].op \in LookupOps
      /\ calls[c].pre.initialized
      /\ ~HasId(calls[c].pre.tasks, TargetId(calls[c])) )
    => /\ ~calls[c].ok
       /\ calls[c].err = "NotFound"
       /\ tasks = calls[c].pre.tasks
       /\ nwrites = calls[c].pre.nwrites
       /\ file = calls[c].pre.file

\* C1's case: a deleteTask for an unknown id has failed on a store that holds a task.
C1_Witness ==
  \E c \in Slots :
    /\ Done(c)
    /\ calls[c].op = "deleteTask"
    /\ calls[c].pre.initialized
    /\ Len(calls[c].pre.tasks) > 0
    /\ ~HasId(calls[c].pre.tasks, TargetId(calls[c]))
    /\ calls[c].err = "NotFound"

\* The writes a call that resolved has made: one for its change, and one
\* before it when the call itself initialized the store from a file it could
\* not load.
WritesOf(call) == IF call.rd \in {"enoent", "parse", "eio"} THEN 2 ELSE 1

\* C2 as stated: every createTask, updateTask and deleteTask that resolves
\* has written the file exactly once, and the file then holds the text of the
\* whole collection.
C2_ExactlyOneWrite ==
  \A c \in Slots :
    (Done(c) /\ calls[c].ok /\ calls[c].op \in MutatingOps)
    => /\ nwrites = calls[c].pre.nwrites + 1
       /\ file = JsonFile(Stringify(tasks))

\* C2 amended: every createTask, updateTask and deleteTask that resolves has
\* written the file exactly once for its change (and once more, before it,
\* when the call had to initialize the store from an absent or unreadable
\* file), and the file then holds the text of the whole collection.
C2_WriteThrough ==
  \A c \in Slots :
    (Done(c) /\ calls[c].ok /\ calls[c].op \in MutatingOps)
    => /\ nwrites = calls[c].pre.nwrites + WritesOf(calls[c])
       /\ file = JsonFile(Stringify(tasks))

\* C2's case: a createTask has resolved on a store that already held a task.
C2_Witness ==
  \E c \in Slots :
    /\ Done(c)
    /\ calls[c].ok
    /\ calls[c].op = "createTask"
    /\ Len(tasks) > 1
    /\ nwrites = calls[c].pre.nwrites + 1

\* A call that has begun its file access or its change to the collection and
\* has not completed.
InStore(c) == calls[c].pc \in {"mkdir", "read", "initWrite", "write"}

\* C3: the store serializes its operations: no two calls are at once between
\* the start of their file access and their completion.
C3_Serialized ==
  \A c, d \in Slots : (c # d /\ InStore(c)) => ~InStore(d)

\* The fields updateTask copies from its payload as they are.
CopiedKeys == {"title", "description", "status", "priority", "tags"}

\* C4: an updateTask that resolved has overwritten every field its payload
\* holds (null and the empty string included; a due date today or tomorrow by
\* a calendar date) and has left every other field but updatedAt as it was.
C4_UpdateOverwritesGivenFieldsOnly ==
  \A c \in Slots :
    (Done(c) /\ calls[c].ok /\ calls[c].op = "updateTask")
    => LET given == calls[c].arg
           old == TaskOf(calls[c].before, Get(given, "id"))
           new == TaskOf(tasks, Get(given, "id"))
       IN /\ \A k \in CopiedKeys :
               Get(new, k) = IF k \in DOMAIN given THEN given[k] ELSE Get(old, k)
          /\ IF "dueDate" \notin DOMAIN given
             THEN Get(new, "dueDate") = Get(old, "dueDate")
             ELSE IF given["dueDate"] \in {"today", "tomorrow"}
             THEN DateParse(Get(new, "dueDate")) # NaN
             ELSE Get(new, "dueDate") = given["dueDate"]
          /\ \A k \in DOMAIN old \ (CopiedKeys \cup {"dueDate", "updatedAt"}) :
               Get(new, k) = Get(old, k)
          /\ new = calls[c].task

\* C4's case: an update has reset a description and a due date that were set.
C4_Witness ==
  \E c \in Slots :
    /\ Done(c)
    /\ calls[c].ok
    /\ calls[c].op = "updateTask"
    /\ Get(calls[c].arg, "description") = ""
    /\ Get(calls[c].arg, "dueDate") = Null
    /\ Get(TaskOf(calls[c].before, Get(calls[c].arg, "id")), "description") = "d"
    /\ Get(calls[c].task, "description") = ""
    /\ Get(calls[c].task, "dueDate") = Null

\* C5: a call whose initialize could not read or parse a file that exists
\* fails, and the store is not initialized.
C5_UnreadableFileFailsInitialize ==
  \A c \in Slots :
    (Done(c) /\ ({calls[c].rd, calls[c].glpRd} \cap {"parse", "eio"} # {}))
    => (~calls[c].ok /\ ~initialized)

\* C6: every task's status and priority is one of the enumerated values.
C6_StatusAndPriorityEnumerated ==
  \A i \in 1..Len(tasks) :
    /\ Get(tasks[i], "status") \in Statuses
    /\ Get(tasks[i], "priority") \in Priorities

\* C7: every task's due date is absent, null or a calendar date, never a
\* relative token.
C7_DueDateNeverRelative ==
  \A i \in 1..Len(tasks) :
    \/ Get(tasks[i], "dueDate") \in {Undef, Null}
    \/ DateParse(Get(tasks[i], "dueDate")) # NaN

\* C8: no step changes the id or the createdAt of a task: a task that keeps
\* its id keeps its createdAt, and a step that keeps the collection's length
\* keeps every position's id.
C8_IdAndCreatedAtImmutable ==
  [][ /\ \A i \in 1..Len(tasks) : \A j \in 1..Len(tasks') :
           Get(tasks'[j], "id") = Get(tasks[i], "id")
           => Get(tasks'[j], "createdAt") = Get(tasks[i], "createdAt")
      /\ Len(tasks') = Len(tasks)
         => \A i \in 1..Len(tasks) : Get(tasks'[i], "id") = Get(tasks[i], "id")
    ]_vars

\* C8's case: an update whose payload holds a createdAt has resolved, and the
\* task's createdAt is not the payload's.
C8_Witness ==
  \E c \in Slots :
    /\ Done(c)
    /\ calls[c].ok
    /\ calls[c].op = "updateTask"
    /\ "createdAt" \in DOMAIN calls[c].arg
    /\ Get(calls[c].task, "createdAt") # calls[c].arg["createdAt"]
    /\ Get(calls[c].task, "title") = calls[c].arg["title"]

\* C9: a method called on an initialized store reads nothing and starts on
\* the collection as it was; initialize itself then resolves with the file
\* and the collection untouched; and an initialize that found no file leaves
\* an empty collection and a file holding the empty collection.
C9_InitializeIdempotent ==
  \A c \in Slots :
    /\ (Done(c) /\ calls[c].pre.initialized)
       => /\ nreads = calls[c].pre.nreads
          /\ calls[c].before = IF calls[c].op = "initialize"
                               THEN <<>> ELSE calls[c].pre.tasks
          /\ calls[c].op = "initialize"
             => /\ calls[c].ok
                /\ nwrites = calls[c].pre.nwrites
                /\ file = calls[c].pre.file
                /\ tasks = calls[c].pre.tasks
    /\ ( \/ calls[c].pc = "glpRet" /\ calls[c].rd = "enoent"
         \/ calls[c].pc = "body" /\ "enoent" \in {calls[c].rd, calls[c].glpRd}
         \/ calls[c].op = "initialize" /\ Done(c) /\ calls[c].ok
            /\ "enoent" \in {calls[c].rd, calls[c].glpRd} )
       => /\ initialized
          /\ tasks = <<>>
          /\ file = JsonFile(<<>>)

\* C9's case: initialize was called on a store already initialized with a
\* task loaded, and resolved.
C9_Witness ==
  \E c \in Slots :
    /\ Done(c)
    /\ calls[c].op = "initialize"
    /\ calls[c].pre.initialized
    /\ calls[c].ok
    /\ Len(tasks) > 0
    /\ calls[c].pre.nreads > 0

\* The fields a created task keeps from its payload.
PayloadKeys == {"title", "description", "priority", "dueDate", "tags"}

\* C10: getTaskById called right after a createTask resolved, with the id
\* it returned, resolves with a record whose title, description, priority,
\* dueDate and tags are those createTask returned, and whose id, createdAt
\* and updatedAt are set.
C10_CreateThenGetRoundTrip ==
  \A c \in Slots :
    ( /\ Done(c)
      /\ calls[c].op = "getTaskById"
      /\ lastCreated.seq > 0
      /\ calls[c].seq = lastCreated.seq + 1
      /\ TargetId(calls[c]) = Get(lastCreated.task, "id") )
    => /\ calls[c].ok
       /\ \A k \in PayloadKeys : Get(calls[c].task, k) = Get(lastCreated.task, k)
       /\ Get(calls[c].task, "id") = TargetId(calls[c])
       /\ DateParse(Get(calls[c].task, "createdAt")) # NaN
       /\ DateParse(Get(calls[c].task, "updatedAt")) # NaN

\* C10's case: a task created into a collection that held another has been
\* fetched by its id.
C10_Witness ==
  \E c \in Slots :
    /\ Done(c)
    /\ calls[c].ok
    /\ calls[c].op = "getTaskById"
    /\ calls[c].seq = lastCreated.seq + 1
    /\ TargetId(calls[c]) = Get(lastCreated.task, "id")
    /\ Len(tasks) > 1
    /\ Get(calls[c].task, "dueDate") = DayString(0)

\* C11: task ids are unique: in every reachable state no two tasks of the
\* collection have the same id.
C11_UniqueIds ==
  \A i, j \in 1..Len(tasks) :
    i # j => Get(tasks[i], "id") # Get(tasks[j], "id")

\* C11's case: two tasks were created into a collection loaded with one.
C11_Witness ==
  /\ Len(tasks) = 3
  /\ \E c \in Slots : Done(c) /\ calls[c].ok /\ calls[c].op = "createTask"
  /\ lastCreated.seq = 2

\* list is ts cut down to the positions idx, in the order of ts.
Subsequence(list, ts, idx) ==
  /\ Len(list) = Cardinality(idx)
  /\ \A i \in idx : list[Cardinality({j \in idx : j <= i})] = ts[i]

\* The task satisfies the filter key k of filters at instant t.
Satisfies(task, filters, k, t) ==
  IF k = "dueDate"
  THEN IF filters[k] = "today"
       THEN Get(task, k) = DayString(t \div TicksPerDay)
       ELSE IF filters[k] = "tomorrow"
       THEN Get(task, k) = DayString((t \div TicksPerDay) + 1)
       ELSE IF filters[k] = "this_week"
       THEN DueThisWeek(task, t)
       ELSE Get(task, k) = filters[k]
  ELSE Get(task, k) = filters[k]

\* The filter keys that hold a value.
PresentKeys(filters) ==
  {k \in {"status", "priority", "dueDate"} : Truthy(Get(filters, k))}

\* The positions of ts whose task satisfies every filter key present.
Matching(ts, filters, t) ==
  {i \in 1..Len(ts) : \A k \in PresentKeys(filters) : Satisfies(ts[i], filters, k, t)}

\* C12: filters combine with AND, this_week included: getTasks returns
\* exactly the tasks that satisfy every filter key present.
C12_FiltersCombineWithAnd ==
  \A c \in Slots :
    (Done(c) /\ calls[c].ok /\ calls[c].op = "getTasks")
    => Subsequence(calls[c].list, calls[c].before,
                   Matching(calls[c].before, calls[c].arg, calls[c].at))

\* C12's case: getTasks with a status and this_week returned a task and left
\* out a task of another status that is due within the week.
C12_Witness ==
  \E c \in Slots :
    /\ Done(c)
    /\ calls[c].ok
    /\ calls[c].op = "getTasks"
    /\ Get(calls[c].arg, "status") = "open"
    /\ Get(calls[c].arg, "dueDate") = "this_week"
    /\ Len(calls[c].list) > 0
    /\ \E i \in 1..Len(calls[c].before) :
         /\ DueThisWeek(calls[c].before[i], calls[c].at)
         /\ Get(calls[c].before[i], "status") = "completed"

\* C13: getTasks with a status filter alone, on a store that initialized,
\* resolves with exactly the tasks whose status is the filter's, in the
\* order of the collection: with the empty sequence when there is none.
C13_StatusFilterKeepsOrder ==
  \A c \in Slots :
    ( /\ Done(c)
      /\ calls[c].op = "getTasks"
      /\ PresentKeys(calls[c].arg) = {"status"}
      /\ SelectedProvider(calls[c].params) = "local"
      /\ calls[c].err # "InitFailed" )
    => /\ calls[c].ok
       /\ \A k \in 1..Len(calls[c].list) :
            Get(calls[c].list[k], "status") = calls[c].arg["status"]
       /\ Subsequence(calls[c].list, calls[c].before,
                      {i \in 1..Len(calls[c].before) :
                         Get(calls[c].before[i], "status") = calls[c].arg["status"]})

\* C13's case: the filter kept the first, third and fourth of four tasks.
C13_Witness ==
  \E c \in Slots :
    /\ Done(c)
    /\ calls[c].ok
    /\ calls[c].op = "getTasks"
    /\ PresentKeys(calls[c].arg) = {"status"}
    /\ Len(calls[c].before) = 4
    /\ Get(calls[c].before[2], "status") # calls[c].arg["status"]
    /\ Len(calls[c].list) = 3
    /\ calls[c].list[3] = calls[c].before[4]

\* C14: getTasks with dueDate this_week, evaluated at the instant at: a task
\* without a due date is never returned, whatever the other filters, and
\* with no other filter a task due exactly seven days later (the calendar
\* date seven days on, or the instant seven days on) is returned.
C14_ThisWeekBounds ==
  \A c \in Slots :
    ( /\ Done(c)
      /\ calls[c].ok
      /\ calls[c].op = "getTasks"
      /\ Get(calls[c].arg, "dueDate") = "this_week" )
    => \A i \in 1..Len(calls[c].before) :
         LET task == calls[c].before[i]
         IN /\ ~Truthy(Get(task, "dueDate"))
               => ~HasId(calls[c].list, Get(task, "id"))
            /\ ( /\ PresentKeys(calls[c].arg) = {"dueDate"}
                 /\ Get(task, "dueDate") \in
                      {DayString((calls[c].at \div TicksPerDay) + WeekDays),
                       ToISOString(calls[c].at + WeekDays * TicksPerDay)} )
               => HasId(calls[c].list, Get(task, "id"))

\* C14's case: at instant 0 the collection held a task due on the seventh
\* day after and a task without a due date; the first was returned.
C14_Witness ==
  \E c \in Slots :
    /\ Done(c)
    /\ calls[c].ok
    /\ calls[c].op = "getTasks"
    /\ PresentKeys(calls[c].arg) = {"dueDate"}
    /\ calls[c].arg["dueDate"] = "this_week"
    /\ calls[c].at = 0
    /\ \E i, j \in 1..Len(calls[c].before) :
         /\ Get(calls[c].before[i], "dueDate") = DayString(WeekDays)
         /\ HasId(calls[c].list, Get(calls[c].before[i], "id"))
         /\ ~Truthy(Get(calls[c].before[j], "dueDate"))

\* C15: a createTask with dueDate tomorrow stores the calendar date one day
\* after the day of the call, one with dueDate today stores the day of the
\* call; and getTasks filtered by the same token alone, called next and on
\* the same day, returns the task created.
C15_RelativeDueDateRoundTrip ==
  \A c \in Slots :
    /\ ( /\ Done(c)
         /\ calls[c].ok
         /\ calls[c].op = "createTask" )
       => /\ Get(calls[c].arg, "dueDate") = "today"
             => Get(calls[c].task, "dueDate") = DayString(calls[c].at \div TicksPerDay)
          /\ Get(calls[c].arg, "dueDate") = "tomorrow"
             => Get(calls[c].task, "dueDate") =
                  DayString((calls[c].at \div TicksPerDay) + 1)
    /\ ( /\ Done(c)
         /\ calls[c].op = "getTasks"
         /\ calls[c].err # "InitFailed"
         /\ lastCreated.seq > 0
         /\ calls[c].seq = lastCreated.seq + 1
         /\ Get(lastCreated.arg, "dueDate") \in {"today", "tomorrow"}
         /\ PresentKeys(calls[c].arg) = {"dueDate"}
         /\ calls[c].arg["dueDate"] = Get(lastCreated.arg, "dueDate")
         /\ SelectedProvider(calls[c].params) = "local"
         /\ calls[c].at \div TicksPerDay = lastCreated.at \div TicksPerDay )
       => /\ calls[c].ok
          /\ HasId(calls[c].list, Get(lastCreated.task, "id"))

\* C15's case: a task created with dueDate tomorrow came back from getTasks
\* filtered by tomorrow, with the stored task that was due that day.
C15_Witness ==
  \E c \in Slots :
    /\ Done(c)
    /\ calls[c].ok
    /\ calls[c].op = "getTasks"
    /\ calls[c].seq = lastCreated.seq + 1
    /\ Get(lastCreated.arg, "dueDate") = "tomorrow"
    /\ Get(calls[c].arg, "dueDate") = "tomorrow"
    /\ Get(lastCreated.task, "dueDate") = DayString(1)
    /\ HasId(calls[c].list, Get(lastCreated.task, "id"))
    /\ Len(calls[c].list) = 2

\* C16: a createTask whose title is missing or empty, made on a store that
\* initialized, fails, adds no task to the collection and writes nothing to
\* the file.
C16_CreateRequiresTitle ==
  \A c \in Slots :
    ( /\ Done(c)
      /\ calls[c].op = "createTask"
      /\ ~Truthy(Get(calls[c].arg, "title"))
      /\ calls[c].err # "InitFailed" )
    => /\ ~calls[c].ok
       /\ tasks = calls[c].pre.tasks
       /\ nwrites = calls[c].pre.nwrites
       /\ file = calls[c].pre.file

\* The errors a call that reached the local store can end with.
StoreErrors == {"none", "NotFound", "InitFailed", "SaveFailed"}

\* C17: a task tool invoked without a provider goes to the local store (it
\* ends as the store ends it, and what it created is in the store's
\* collection and file); a task tool invoked with the name of another
\* provider fails with the unsupported-provider error that names it, and the
\* collection and the file are as they were: nothing was read or written.
C17_ProviderSelection ==
  \A c \in Slots :
    (Done(c) /\ calls[c].tool # "none")
    => LET name == Get(calls[c].params, "provider")
       IN /\ name = Undef
             => /\ calls[c].err \in StoreErrors
                /\ (calls[c].ok /\ calls[c].tool = "createTask")
                   => /\ HasId(tasks, Get(calls[c].task, "id"))
                      /\ file = JsonFile(Stringify(tasks))
          /\ name \notin {Undef, "local"}
             => /\ ~calls[c].ok
                /\ calls[c].err =
                     "Task provider '" \o name \o "' is not supported or enabled"
                /\ tasks = calls[c].pre.tasks
                /\ file = calls[c].pre.file
                /\ nwrites = calls[c].pre.nwrites
                /\ nreads = calls[c].pre.nreads

\* C17's case: createTask for todoist was refused on a store that a call
\* without a provider had loaded.
C17_Witness ==
  \E c \in Slots :
    /\ Done(c)
    /\ calls[c].tool = "createTask"
    /\ Get(calls[c].params, "provider") = "todoist"
    /\ ~calls[c].ok
    /\ calls[c].err = UnsupportedProvider("todoist")
    /\ initialized
    /\ Len(tasks) = Len(StoredTasks)

\* C20: a deleteTask that resolved has removed the one record with its id
\* and left every other record as it was and where it was, in the collection
\* and in the file; a getTaskById for that id made afterwards fails with
\* not-found, and a getTasks made afterwards does not return it.
C20_DeleteRemovesExactlyOne ==
  \A c \in Slots :
    /\ (Done(c) /\ calls[c].ok /\ calls[c].op = "deleteTask")
       => LET id == Get(calls[c].arg, "taskId")
          IN /\ HasId(calls[c].before, id)
             /\ ~HasId(tasks, id)
             /\ Subsequence(tasks, calls[c].before,
                            {i \in 1..Len(calls[c].before) :
                               Get(calls[c].before[i], "id") # id})
             /\ file = JsonFile(Stringify(tasks))
    /\ ( /\ Done(c)
         /\ calls[c].op = "getTaskById"
         /\ lastDeleted.seq > 0
         /\ calls[c].seq > lastDeleted.seq
         /\ SelectedProvider(calls[c].params) = "local"
         /\ Get(calls[c].arg, "taskId") = lastDeleted.taskId )
       => /\ ~calls[c].ok
          /\ calls[c].err = "NotFound"
    /\ ( /\ Done(c)
         /\ calls[c].op = "getTasks"
         /\ lastDeleted.seq > 0
         /\ calls[c].seq > lastDeleted.seq )
       => ~HasId(calls[c].list, lastDeleted.taskId)

\* C20's case: the second of four tasks was deleted, the other three are in
\* their order, and a getTaskById for the second has failed.
C20_Witness ==
  \E c \in Slots :
    /\ Done(c)
    /\ calls[c].op = "getTaskById"
    /\ calls[c].seq = lastDeleted.seq + 1
    /\ Get(calls[c].arg, "taskId") = lastDeleted.taskId
    /\ lastDeleted.taskId = Get(StoredTasks[2], "id")
    /\ calls[c].err = "NotFound"
    /\ Len(tasks) = 3
    /\ Get(tasks[2], "id") = Get(StoredTasks[3], "id")

\* How a call that got into its method can end.
MethodErrors == {"none", "NotFound", "SaveFailed"}

\* The part of C21 about the next call: a task call made while the local
\* provider is disabled, or whose initialize fails, rejects, keeps no provider
\* (disabled) and leaves the store uninitialized, so that the next call
\* initializes again: a task call that ends in any other way has loaded the
\* collection from the file, and getTasks then resolves.  A calendar call for
\* google rejects exactly when no client is kept and the credentials are
\* missing, and keeps no client then.
RetriesAfterFailure ==
  \A c \in Slots :
    Done(c)
    => /\ ( /\ calls[c].tool \in TaskTools
            /\ SelectedProvider(calls[c].params) = "local" )
          => /\ (~env.localEnabled /\ provider = "null")
                => calls[c].err = "ProviderDisabled"
             /\ calls[c].err = "ProviderDisabled"
                => /\ ~calls[c].ok
                   /\ ~calls[c].pre.env.localEnabled
                   /\ calls[c].pre.provider = "null"
                   /\ provider = "null"
             /\ calls[c].err = "InitFailed"
                => /\ ~calls[c].ok
                   /\ ~initialized
             /\ calls[c].err \notin {"ProviderDisabled", "InitFailed"}
                => /\ calls[c].err \in MethodErrors
                   /\ initialized
                   /\ nreads > 0
                   /\ ~calls[c].pre.initialized
                      => /\ calls[c].rd # "none"
                         /\ nreads > calls[c].pre.nreads
                   /\ calls[c].tool = "getTasks" => calls[c].ok
       /\ ( /\ calls[c].tool \in CalendarTools
            /\ OrElse(Get(calls[c].params, "provider"), "google") = "google" )
          => /\ ~calls[c].ok
                <=> ( /\ calls[c].pre.googleCalendarClient = "null"
                      /\ ~calls[c].pre.env.credentials )
             /\ ~calls[c].ok
                => /\ calls[c].err = "MissingCredentials"
                   /\ googleCalendarClient = "null"

\* The storage requests of a call's initialize that failed: the mkdir or the
\* write (the call ended with InitFailed), or the read of a file that exists.
MetUnusableStorage(call) ==
  \/ call.err = "InitFailed"
  \/ {call.rd, call.glpRd} \cap {"eio", "parse"} # {}

\* C21: an initialization failure is not sticky: while its cause persists
\* (the local provider disabled, the storage unusable, the Google
\* credentials missing) every call into the provider rejects, and once the
\* cause is corrected the next call initializes the provider and succeeds.
C21_InitFailureNotSticky ==
  /\ RetriesAfterFailure
  /\ \A c \in Slots :
       ( /\ Done(c)
         /\ calls[c].tool \in TaskTools
         /\ MetUnusableStorage(calls[c]) )
       => ~calls[c].ok

\* The call before failed to initialize the store, and this one loaded the
\* stored tasks and resolved.
RetriedAfterStorageFailure ==
  \E c \in Slots :
    /\ Done(c)
    /\ calls[c].ok
    /\ calls[c].tool = "getTasks"
    /\ lastError.err = "InitFailed"
    /\ calls[c].seq = lastError.seq + 1
    /\ calls[c].rd = "ok"
    /\ Len(calls[c].list) = Len(StoredTasks)

\* The same for the provider that was disabled and is enabled, and for the
\* credentials that were missing and are set.
RetriedAfterEnabling ==
  \E c \in Slots :
    /\ Done(c)
    /\ calls[c].ok
    /\ calls[c].tool \in TaskTools
    /\ lastError.err = "ProviderDisabled"
    /\ calls[c].seq = lastError.seq + 1

RetriedAfterCredentials ==
  \E c \in Slots :
    /\ Done(c)
    /\ calls[c].ok
    /\ calls[c].tool \in CalendarTools
    /\ lastError.err = "MissingCredentials"
    /\ calls[c].seq = lastError.seq + 1
    /\ googleCalendarClient = "set"

\* The writes a method call has asked for when it has ended: the one of its
\* initialize (when the call itself initialized the store from a file it
\* could not load) and the one of its change (when it got that far).
WritesAsked(call) ==
  (IF call.rd \in {"enoent", "parse", "eio"} THEN 1 ELSE 0)
  + (IF call.op \in MutatingOps /\ call.err \in {"none", "SaveFailed"} THEN 1 ELSE 0)

\* C22 as stated: a store operation attempts the file write at most once, and
\* a write that failed is the operation's error: an operation that resolved
\* has its text in the file.
C22_AtMostOneWrite ==
  \A c \in Slots :
    (Done(c) /\ calls[c].op # "none")
    => /\ nwrites <= calls[c].pre.nwrites + 1
       /\ (calls[c].ok /\ calls[c].op \in MutatingOps)
          => file = JsonFile(calls[c].wbuf)

\* C22 amended: a store operation attempts each of its file writes once and
\* no more (the write of its change, and before it the write of the empty
\* collection when the call itself initializes the store from an absent or
\* unreadable file); a write that failed is the operation's error (the file
\* is as it was, the call rejects with it) and an operation that resolved has
\* its text in the file.
C22_NoRetry ==
  \A c \in Slots :
    (Done(c) /\ calls[c].op # "none")
    => /\ nwrites = calls[c].pre.nwrites + WritesAsked(calls[c])
       /\ (calls[c].ok /\ calls[c].op \in MutatingOps)
          => file = JsonFile(calls[c].wbuf)
       /\ calls[c].err \in {"SaveFailed", "InitFailed"}
          => /\ ~calls[c].ok
             /\ lastError = [seq |-> calls[c].seq, err |-> calls[c].err]

\* C22's case: a createTask wrote the empty collection for its initialize,
\* then its own write failed, and it rejected after those two writes.
C22_Witness ==
  \E c \in Slots :
    /\ Done(c)
    /\ calls[c].op = "createTask"
    /\ calls[c].err = "SaveFailed"
    /\ calls[c].rd = "enoent"
    /\ nwrites = calls[c].pre.nwrites + 2
    /\ file = JsonFile(Stringify(<<>>))

\* createdAt and updatedAt of a task are instants, the first not after the
\* second.
StampsInOrder(task) ==
  /\ DateParse(Get(task, "createdAt")) # NaN
  /\ DateParse(Get(task, "updatedAt")) # NaN
  /\ DateParse(Get(task, "createdAt")) <= DateParse(Get(task, "updatedAt"))

\* C23: every task of the collection and of the file has createdAt <=
\* updatedAt, and an updateTask that resolved returned and stored a task whose
\* updatedAt is the instant of the update, not earlier than the updatedAt the
\* task had before.
C23_CreatedBeforeUpdated ==
  /\ \A i \in 1..Len(tasks) : StampsInOrder(tasks[i])
  /\ file.kind = "json"
     => \A i \in 1..Len(file.json) : StampsInOrder(file.json[i])
  /\ \A c \in Slots :
       (Done(c) /\ calls[c].ok /\ calls[c].op \in {"createTask", "updateTask"})
       => /\ StampsInOrder(calls[c].task)
          /\ calls[c].op = "updateTask"
             => /\ Get(calls[c].task, "updatedAt") = ToISOString(calls[c].at)
                /\ DateParse(Get(TaskOf(calls[c].before, TargetId(calls[c])), "updatedAt"))
                     <= DateParse(Get(calls[c].task, "updatedAt"))

\* C23's case: an updateTask that resolved moved updatedAt forward, and the
\* stored task now has createdAt strictly before updatedAt.
C23_Witness ==
  \E c \in Slots :
    /\ Done(c)
    /\ calls[c].ok
    /\ calls[c].op = "updateTask"
    /\ HasId(tasks, TargetId(calls[c]))
    /\ DateParse(Get(TaskOf(calls[c].before, TargetId(calls[c])), "updatedAt"))
         < DateParse(Get(calls[c].task, "updatedAt"))
    /\ DateParse(Get(TaskOf(tasks, TargetId(calls[c])), "createdAt"))
         < DateParse(Get(TaskOf(tasks, TargetId(calls[c])), "updatedAt"))

\* C24: a placeholder tool's call resolves with its tool's fixed message
\* whatever its parameters are, and while it is the last call made the
\* collection, the file, the provider and the counts of reads and writes are
\* what they were when it was invoked.
C24_PlaceholdersFixedAndPure ==
  \A c \in Slots :
    (Done(c) /\ calls[c].tool \in PlaceholderTools)
    => /\ calls[c].ok
       /\ calls[c].err = "none"
       /\ calls[c].message = PlaceholderMessages[calls[c].tool]
       /\ calls[c].seq = nops
          => /\ tasks = calls[c].pre.tasks
             /\ file = calls[c].pre.file
             /\ initialized = calls[c].pre.initialized
             /\ provider = calls[c].pre.provider
             /\ nreads = calls[c].pre.nreads
             /\ nwrites = calls[c].pre.nwrites
             /\ googleCalendarClient = calls[c].pre.googleCalendarClient

\* C24's case: a placeholder tool was called with a query, after a task call
\* had loaded the stored collection.
C24_Witness ==
  \E c \in Slots :
    /\ Done(c)
    /\ calls[c].tool \in PlaceholderTools
    /\ Truthy(Get(calls[c].params, "query"))
    /\ calls[c].seq = 2
    /\ nops = 2
    /\ calls[c].pre.initialized
    /\ Len(tasks) > 0

\* The ids of the tasks a file's text holds.
IdsOfFile(f) ==
  IF f.kind = "json"
  THEN {Get(f.json[i], "id") : i \in 1..Len(f.json)}
  ELSE {}

\* C25: when two createTask calls made concurrently have both resolved, the
\* collection and the file each hold both new tasks and every task the file
\* held when the calls were made.
C25_NoLostCreate ==
  \A c, d \in Slots :
    (/\ c # d
     /\ Done(c) /\ calls[c].ok /\ calls[c].op = "createTask"
     /\ Done(d) /\ calls[d].ok /\ calls[d].op = "createTask")
    => LET kept == {Get(calls[c].task, "id"), Get(calls[d].task, "id")}
                     \cup IdsOfFile(calls[c].pre.file)
                     \cup IdsOfFile(calls[d].pre.file)
       IN /\ \A id \in kept : HasId(tasks, id)
          /\ kept \subseteq IdsOfFile(file)

\* The loss in memory: both createTask calls resolved and the collection
\* lacks the task one of them returned (the second call's initialize replaced
\* the collection the first had pushed on).
LostCreateInMemory ==
  \E c, d \in Slots :
    /\ c # d
    /\ Done(c) /\ calls[c].ok /\ calls[c].op = "createTask"
    /\ Done(d) /\ calls[d].ok /\ calls[d].op = "createTask"
    /\ ~HasId(tasks, Get(calls[c].task, "id"))
    /\ ~(Get(calls[c].task, "id") \in IdsOfFile(file))

\* C26: when mutating calls made of an initialized store, some while another
\* was in flight, have all resolved, the file's text is the serialization of
\* the collection.
C26_FileMatchesAfterConcurrentWrites ==
  (/\ nops = MaxOps
   /\ \A c \in Slots :
        /\ Done(c)
        /\ calls[c].ok
        /\ calls[c].op \in MutatingOps
        /\ calls[c].pre.initialized)
  => file = JsonFile(Stringify(tasks))

\* C27: when the file write of a createTask, updateTask or deleteTask has
\* failed, the call has rejected and, while it is the last call made, the
\* collection is the one its body found.
C27_FailedWriteLeavesCollection ==
  \A c \in Slots :
    (/\ Done(c)
     /\ calls[c].op \in MutatingOps
     /\ calls[c].err = "SaveFailed"
     /\ calls[c].seq = nops)
    => /\ ~calls[c].ok
       /\ tasks = calls[c].before

\* C28: initialize never overwrites a file that exists: when the initialize
\* of getLocalTaskProvider has ended after a read that found a file it could
\* not read or parse, the file is what it was when the call was made.
C28_InitializeKeepsExistingFile ==
  \A c \in Slots :
    (/\ calls[c].pc = "glpRet"
     /\ calls[c].rd \in {"parse", "eio"})
    => file = calls[c].pre.file

\* The stored task destroyed: the file held the seed task, its read failed,
\* and initialize has replaced it with the empty collection.
StoredTaskOverwritten ==
  \E c \in Slots :
    /\ calls[c].pc = "glpRet"
    /\ calls[c].rd = "eio"
    /\ calls[c].pre.file = JsonFile(Stringify(<<SeedTask>>))
    /\ file = JsonFile(Stringify(<<>>))

\* The ids of a list of tasks, in the list's order.
IdsOf(ts) == [i \in 1..Len(ts) |-> Get(ts[i], "id")]

\* The list without its i-th element.
Without(ids, i) == SubSeq(ids, 1, i - 1) \o SubSeq(ids, i + 1, Len(ids))

\* The tasks stand in the order their ids were drawn.
InCreationOrder(ts) ==
  \A i, j \in 1..Len(ts) :
    i < j => \E m, n \in 1..(nextId - 1) :
               /\ m < n
               /\ Get(ts[i], "id") = Uuid(m)
               /\ Get(ts[j], "id") = Uuid(n)

\* getTasks is given no filter: none of the three keys it reads is set.
NoFilter(filters) ==
  \A k \in {"status", "priority", "dueDate"} : ~Truthy(Get(filters, k))

\* C29: the collection is always in creation order; while a call that
\* resolved is the last one made, a createTask has put its task at the end of
\* the collection its body found, an updateTask (completeTask included) has
\* put its task where the old one stood and moved nothing, a deleteTask has
\* taken its task out and moved nothing else, and a getTasks without filter
\* has listed the collection in its order.
C29_InsertionOrderStable ==
  /\ InCreationOrder(tasks)
  /\ \A c \in Slots :
       (Done(c) /\ calls[c].ok /\ calls[c].seq = nops)
       => LET before == calls[c].before
              at == FindIndex(before, TargetId(calls[c]))
          IN /\ calls[c].op = "createTask"
                => /\ IdsOf(tasks) = IdsOf(before) \o <<Get(calls[c].task, "id")>>
                   /\ tasks[Len(tasks)] = calls[c].task
             /\ calls[c].op = "updateTask"
                => /\ IdsOf(tasks) = IdsOf(before)
                   /\ tasks[at] = calls[c].task
                   /\ \A i \in 1..Len(tasks) : i # at => tasks[i] = before[i]
             /\ calls[c].op = "deleteTask"
                => /\ IdsOf(tasks) = Without(IdsOf(before), at)
                   /\ \A i \in 1..Len(tasks) :
                        tasks[i] = before[IF i < at THEN i ELSE i + 1]
             /\ (calls[c].op = "getTasks" /\ NoFilter(calls[c].arg))
                => /\ calls[c].list = tasks
                   /\ InCreationOrder(calls[c].list)

\* C29's case: after a deleteTask took the second of the four stored tasks
\* out, a completeTask resolved on a task of the three left.
C29_Witness ==
  \E c \in Slots :
    /\ Done(c)
    /\ calls[c].ok
    /\ calls[c].tool = "completeTask"
    /\ calls[c].seq = 2
    /\ nops = 2
    /\ lastDeleted = [seq |-> 1, taskId |-> Uuid(2)]
    /\ Len(tasks) = 3
    /\ FindIndex(tasks, TargetId(calls[c])) = 3

\* and a createTask resolved on the four stored tasks, then a getTasks
\* without filter listed the five.
ListedAfterCreate ==
  \E c \in Slots :
    /\ Done(c)
    /\ calls[c].ok
    /\ calls[c].tool = "getTasks"
    /\ NoFilter(calls[c].arg)
    /\ lastCreated.seq = 1
    /\ Len(calls[c].list) = Len(StoredTasks) + 1

\* C30: getTasks with dueDate this_week and no other filter, evaluated at any
\* instant of a day, returns every task whose stored dueDate is that day's
\* date.
C30_DueTodayIsThisWeek ==
  \A c \in Slots :
    (/\ Done(c)
     /\ calls[c].ok
     /\ calls[c].op = "getTasks"
     /\ PresentKeys(calls[c].arg) = {"dueDate"}
     /\ Get(calls[c].arg, "dueDate") = "this_week")
    => \A i \in 1..Len(calls[c].before) :
         Get(calls[c].before[i], "dueDate") = ISODate(calls[c].at)
         => HasId(calls[c].list, Get(calls[c].before[i], "id"))

\* The task due today is returned when the day has just begun (the instant
\* is midnight UTC): the one moment of the day at which it is.
DueTodayReturnedAtMidnight ==
  \E c \in Slots :
    /\ Done(c)
    /\ calls[c].ok
    /\ calls[c].op = "getTasks"
    /\ PresentKeys(calls[c].arg) = {"dueDate"}
    /\ Get(calls[c].arg, "dueDate") = "this_week"
    /\ calls[c].at = 0
    /\ \E i \in 1..Len(calls[c].before) :
         /\ Get(calls[c].before[i], "dueDate") = ISODate(0)
         /\ HasId(calls[c].list, Get(calls[c].before[i], "id"))

====
